---------------------------- MODULE Spec2Model ----------------------------
(***************************************************************************)
(* Bulk load of an initially-empty btree (src/btree/bt_bulk.c).            *)
(*                                                                         *)
(* The state is the btree handle (root reference, flags, statistics), the  *)
(* CURSOR_BULK structure, the heap of WT_INSERT/WT_UPDATE items the bulk   *)
(* cursor allocates, and the pages handed to __wt_page_reconcile.  Each    *)
(* entry point (__wt_bulk_init, __wt_bulk_insert, __wt_bulk_end) is one    *)
(* action; the allocation layer and reconciliation are the environment:    *)
(* an action's inputs say which call of the environment fails, if any.     *)
(***************************************************************************)
EXTENDS Integers, Sequences, FiniteSets, TLC

(* ------------------------------ bounds ------------------------------- *)

\* Records per page.  The source sets cbulk->ipp to 50000 (line 66); the
\* model runs the same code with a small capacity.
Ipp == 2

\* Slots added to the parent reference array by one reallocation.  The
\* source adds 1000 (lines 270-273, 323-326); the model adds fewer.
RefChunk == 2

\* Calls of the bulk-load entry points in one behaviour.
MaxCalls == 7

\* Calls in which the environment (allocation, reconciliation) fails.
MaxFaults == 2

(* ------------------------- names of the source ------------------------ *)

BtreeTypes == {"BTREE_COL_FIX", "BTREE_COL_RLE", "BTREE_COL_VAR", "BTREE_ROW"}

ColPageTypes == {"WT_PAGE_COL_FIX", "WT_PAGE_COL_RLE", "WT_PAGE_COL_VAR"}

\* Return values: 0, and the errors the callees can produce.
OK == "0"

WT_ERROR == "WT_ERROR"

ENOMEM == "ENOMEM"

\* What __wt_page_reconcile may return besides 0.
RecErrs == {"WT_ERROR", "ENOMEM"}

\* The values an application stores.
Values == {10, 20}

\* The call of the environment that fails during an operation.
Sites == {"none", "ins_alloc", "upd_alloc", "realloc", "buf_set", "calloc", "reconcile", "root_calloc", "root_reconcile"}

\* A null pointer; item addresses are 1, 2, ...
NULL == 0

\* The value of cbulk->insp / cbulk->updp when it is &cbulk->ins_base /
\* &cbulk->upd_base; a positive value p is &item[p].next.
BASE == -1

\* btree     the WT_BTREE handle: type, root_page (WT_REF), flags, and the
\*           items_inserted statistic
\* cbulk     the CURSOR_BULK structure
\* recs      the WT_INSERT/WT_UPDATE items allocated so far, by address
\* pages     the skeleton leaves handed to __wt_page_reconcile, in order,
\*           each with the item list it reached and the result returned
\* log       the reconciliations and the root installation, in order
\* calls     the calls of the entry points with their return values
\* inserted  the pairs of the inserts that returned 0
\* phase     "new" until __wt_bulk_init succeeds, "loading" until
\*           __wt_bulk_end installs a root page, then "ended"
VARIABLES btree, cbulk, recs, pages, log, calls, inserted, phase

vars == <<btree, cbulk, recs, pages, log, calls, inserted, phase>>

(* ------------------------------- pages -------------------------------- *)

\* An in-memory page as the root reference sees it: type, entries, the
\* starting record number (u.col_int.recno), the reference array it points
\* to (u.col_int.t / u.row_int.t, named by the array's allocation), parent,
\* parent_ref, read_gen, the modified mark and the flags.  NoPage is the
\* null page pointer.
NoPage == [type |-> "NULL", entries |-> 0, recno |-> 0, t |-> NULL, parent |-> NULL, parent_ref |-> "NULL", read_gen |-> 0, modified |-> FALSE, flags |-> {}]

\* The page btree open creates for an empty tree.
EmptyPage == [NoPage EXCEPT !.type = "WT_PAGE_ROW_LEAF", !.parent_ref = "root_page", !.flags = {"WT_PAGE_INITIAL_EMPTY"}]

\* The root page of a tree that holds data.
DataPage == [NoPage EXCEPT !.type = "WT_PAGE_ROW_INT", !.entries = 1, !.parent_ref = "root_page"]

\* A cursor as cursor open allocates it (zeroed), before __wt_bulk_init.
ZeroCbulk == [recno |-> 0, page_type |-> "WT_PAGE_INVALID", ipp |-> 0, ins_cnt |-> 0, ref_next |-> 0, ref_entries |-> 0, ref_allocated |-> 0, ref |-> <<>>, ref_gen |-> NULL, upd_base |-> NULL, updp |-> NULL, ins_base |-> NULL, insp |-> NULL, key |-> NULL]

\* A slot of the parent reference array as realloc hands it out (zeroed).
ZeroRef == [key |-> NULL, recno |-> 0]

ZeroRefs(n) == [i \in 1..n |-> ZeroRef]

(* --------------------------- the item heap ---------------------------- *)

\* The forward-linked list that starts at item `head`: the addresses met
\* by following next until NULL.
RECURSIVE Walk(_, _)
Walk(heap, head) == IF head = NULL THEN <<>> ELSE <<head>> \o Walk(heap, heap[head].next)

\* *(p) = v for the list pointers insp/updp: p is the base pointer of the
\* cursor or the next field of an item.
StoreHeap(heap, p, v) == IF p = BASE THEN heap ELSE [heap EXCEPT ![p].next = v]

\* The base pointer set only while it is NULL: the head of a list the page
\* already owns is kept.
StoreBaseOnlyWhenNull(base, p, v) == IF p = BASE /\ base = NULL THEN v ELSE base

StoreBase(base, p, v) == IF p = BASE THEN v ELSE base

\* __wt_sb_decrement: the item gives up its reference on the session
\* buffer it was allocated from.  The call drops a reference count and does
\* not touch the item, so an item released while it is linked stays in the
\* list with its bytes; released records that it no longer holds its
\* reference.
SbDecrement(heap, p) == [heap EXCEPT ![p].released = TRUE]

(* ----------------------------- outcomes ------------------------------- *)

\* The machine state the handlers work on; call is the number of the call
\* in progress.
M == [btree |-> btree, cbulk |-> cbulk, recs |-> recs, pages |-> pages, log |-> log, call |-> Len(calls) + 1]

\* What a handler leaves: the state, its return value and the failing call.
Out(m, ret, site) == [m |-> m, ret |-> ret, site |-> site]

(* --------------------------- page rotation ---------------------------- *)

\* The array grown by one slot instead of one chunk.
GrowRefsByOne(c) == [c EXCEPT !.ref = @ \o ZeroRefs(1), !.ref_allocated = c.ref_entries + 1, !.ref_entries = @ + 1, !.ref_gen = @ + 1]

\* Lines 269-274 and 322-327: grow the parent reference array by one chunk
\* when every allocated slot is used.  realloc keeps the used slots, zeroes
\* the new ones and may move the array.
GrowRefs(c) == [c EXCEPT !.ref = @ \o ZeroRefs(RefChunk), !.ref_allocated = c.ref_entries + RefChunk, !.ref_entries = @ + RefChunk, !.ref_gen = @ + 1]

\* __wt_page_reconcile(session, page, 0, WT_REC_EVICT | WT_REC_LOCKED) of a
\* skeleton leaf: the page, the item list it reaches at that moment and the
\* result are recorded; the result is the environment's.
ReconcileLeaf(m, page, res) == [m EXCEPT !.pages = Append(@, [page EXCEPT !.list = Walk(m.recs, page.head), !.res = res]), !.log = Append(@, [ev |-> "leaf", slot |-> page.parent_ref.idx, res |-> res, call |-> m.call])]

\* ColReset without line 346: the starting record number is not advanced.
ColResetKeepsRecno(c) == [c EXCEPT !.updp = BASE, !.ins_cnt = 0, !.ref_next = @ + 1]

\* Lines 346-351: the page owns the update list; the cursor starts a new
\* list at the next record number and the next parent slot.
ColReset(c) == [c EXCEPT !.recno = @ + c.ins_cnt, !.updp = BASE, !.ins_cnt = 0, !.ref_next = @ + 1]

\* RowReset without line 297: the append cursor keeps pointing into the
\* list the page now owns.
RowResetKeepsCursor(c) == [c EXCEPT !.ins_cnt = 0, !.ref_next = @ + 1]

\* RowReset without line 300: the next leaf is wired to the same slot.
RowResetKeepsSlot(c) == [c EXCEPT !.insp = BASE, !.ins_cnt = 0]

\* Lines 297-300: the page owns the insert list; the cursor starts a new
\* list at the next parent slot.
RowReset(c) == [c EXCEPT !.insp = BASE, !.ins_cnt = 0, !.ref_next = @ + 1]

\* __wt_bulk_col_page: reconcile a set of column-store bulk-loaded items.
wt_bulk_col_page(m, fault, err) ==
    LET c0 == m.cbulk
        grow == c0.ref_next = c0.ref_entries
        c1 == IF grow THEN GrowRefs(c0) ELSE c0
        c2 == [c1 EXCEPT !.ref[c1.ref_next + 1].recno = c1.recno]
        page == [type |-> c2.page_type, parent |-> NULL, parent_ref |-> [arr |-> c2.ref_gen, idx |-> c2.ref_next], recno |-> c2.recno, head |-> c2.upd_base, dsk |-> NULL, modified |-> TRUE, flags |-> {"WT_PAGE_BULK_LOAD"}, list |-> <<>>, res |-> OK]
        c3 == ColReset(c2)
        res == IF fault = "reconcile" THEN err ELSE OK
    IN  IF grow /\ fault = "realloc" THEN Out(m, ENOMEM, "realloc")
        ELSE IF fault = "calloc" THEN Out([m EXCEPT !.cbulk = c2], ENOMEM, "calloc")
        ELSE Out(ReconcileLeaf([m EXCEPT !.cbulk = c3], page, res), res, IF res = OK THEN "none" ELSE "reconcile")

\* __wt_bulk_row_page: reconcile a set of row-store bulk-loaded items.
wt_bulk_row_page(m, fault, err) ==
    LET c0 == m.cbulk
        grow == c0.ref_next = c0.ref_entries
        c1 == IF grow THEN GrowRefs(c0) ELSE c0
        \* __wt_buf_set copies the first item's key into cbulk->key;
        \* __wt_buf_steal moves that copy into the slot and empties the buffer.
        copy == m.recs[c1.ins_base].key
        c2 == [c1 EXCEPT !.ref[c1.ref_next + 1].key = copy, !.key = NULL]
        page == [type |-> "WT_PAGE_ROW_LEAF", parent |-> NULL, parent_ref |-> [arr |-> c2.ref_gen, idx |-> c2.ref_next], recno |-> 0, head |-> c2.ins_base, dsk |-> NULL, modified |-> TRUE, flags |-> {"WT_PAGE_BULK_LOAD"}, list |-> <<>>, res |-> OK]
        c3 == RowReset(c2)
        res == IF fault = "reconcile" THEN err ELSE OK
    IN  IF grow /\ fault = "realloc" THEN Out(m, ENOMEM, "realloc")
        ELSE IF fault = "buf_set" THEN Out([m EXCEPT !.cbulk = c1], ENOMEM, "buf_set")
        ELSE IF fault = "calloc" THEN Out([m EXCEPT !.cbulk = c2], ENOMEM, "calloc")
        ELSE Out(ReconcileLeaf([m EXCEPT !.cbulk = c3], page, res), res, IF res = OK THEN "none" ELSE "reconcile")

\* The switch on cbulk->page_type of lines 205-214.
wt_bulk_page(m, fault, err) == IF m.cbulk.page_type = "WT_PAGE_ROW_LEAF" THEN wt_bulk_row_page(m, fault, err) ELSE wt_bulk_col_page(m, fault, err)

(* ------------------------------ insert -------------------------------- *)

\* An item as __wt_update_alloc / __wt_row_insert_alloc return it.
NewItem(key, val) == [key |-> key, val |-> val, next |-> NULL, released |-> FALSE]

\* The test written cbulk->ins_cnt++ == cbulk->ipp: on the count before
\* the increment.
PageFullPostIncrement(c) == c.ins_cnt - 1 = c.ipp

\* Lines 139 and 178: the test ++cbulk->ins_cnt == cbulk->ipp, on the
\* incremented count.
PageFull(c) == c.ins_cnt = c.ipp

\* __wt_bulk_col: column-store bulk load of one value.
wt_bulk_col(m, val, fault, err) ==
    LET c0 == m.cbulk
        upd == Len(m.recs) + 1
        heap == StoreHeap(Append(m.recs, NewItem(NULL, val)), c0.updp, upd)
        c1 == [c0 EXCEPT !.upd_base = StoreBase(@, c0.updp, upd), !.updp = upd, !.ins_cnt = @ + 1]
        m1 == [m EXCEPT !.cbulk = c1, !.recs = heap]
        r == wt_bulk_col_page(m1, fault, err)
    IN  IF fault = "upd_alloc" THEN Out(m, ENOMEM, "upd_alloc")
        ELSE IF ~PageFull(c1) THEN Out(m1, OK, "none")
        ELSE IF r.ret = OK THEN r
        ELSE Out([r.m EXCEPT !.recs = SbDecrement(@, upd)], r.ret, r.site)

\* __wt_bulk_row: row-store bulk load of one key/value pair.  The local upd
\* stays NULL (the update is allocated into ins->upd), so the error path
\* releases the WT_INSERT only.
wt_bulk_row(m, key, val, fault, err) ==
    LET c0 == m.cbulk
        ins == Len(m.recs) + 1
        heap0 == Append(m.recs, NewItem(key, NULL))
        heap == StoreHeap([heap0 EXCEPT ![ins].val = val], c0.insp, ins)
        c1 == [c0 EXCEPT !.ins_base = StoreBase(@, c0.insp, ins), !.insp = ins, !.ins_cnt = @ + 1]
        m1 == [m EXCEPT !.cbulk = c1, !.recs = heap]
        r == wt_bulk_row_page(m1, fault, err)
    IN  IF fault = "ins_alloc" THEN Out(m, ENOMEM, "ins_alloc")
        ELSE IF fault = "upd_alloc" THEN Out([m EXCEPT !.recs = SbDecrement(heap0, ins)], ENOMEM, "upd_alloc")
        ELSE IF ~PageFull(c1) THEN Out(m1, OK, "none")
        ELSE IF r.ret = OK THEN r
        ELSE Out([r.m EXCEPT !.recs = SbDecrement(@, ins)], r.ret, r.site)

\* __wt_bulk_insert: route to the layout's insert; count the item when it
\* succeeded.
wt_bulk_insert(m, key, val, fault, err) ==
    LET r == IF m.cbulk.page_type = "WT_PAGE_ROW_LEAF" THEN wt_bulk_row(m, key, val, fault, err) ELSE wt_bulk_col(m, val, fault, err)
    IN  IF r.ret = OK THEN Out([r.m EXCEPT !.btree.items_inserted = @ + 1], OK, "none") ELSE r

(* -------------------------------- end --------------------------------- *)

\* The root page with the allocated slot count for its entries.
RootPageAllocatedEntries(c) == [NoPage EXCEPT !.type = IF c.page_type = "WT_PAGE_ROW_LEAF" THEN "WT_PAGE_ROW_INT" ELSE "WT_PAGE_COL_INT", !.entries = c.ref_entries, !.recno = IF c.page_type = "WT_PAGE_ROW_LEAF" THEN 0 ELSE 1, !.t = c.ref_gen, !.parent = NULL, !.parent_ref = "root_page", !.read_gen = 0, !.modified = TRUE]

\* Lines 216-240: the internal page __wt_bulk_end allocates and fills.
RootPage(c) == [NoPage EXCEPT !.type = IF c.page_type = "WT_PAGE_ROW_LEAF" THEN "WT_PAGE_ROW_INT" ELSE "WT_PAGE_COL_INT", !.entries = c.ref_next, !.recno = IF c.page_type = "WT_PAGE_ROW_LEAF" THEN 0 ELSE 1, !.t = c.ref_gen, !.parent = NULL, !.parent_ref = "root_page", !.read_gen = 0, !.modified = TRUE]

\* Lines 242-245 without line 246: the reference is reset but the page is
\* not stored in it.
InstallRootNoPage(m, page) == [m EXCEPT !.btree.root_page = [state |-> "WT_REF_MEM", addr |-> "WT_ADDR_INVALID", size |-> 0, page |-> m.btree.root_page.page], !.log = Append(@, [ev |-> "install", slot |-> -1, res |-> OK, call |-> m.call])]

\* Lines 242-246: reference the page from the root of the tree.
InstallRoot(m, page) == [m EXCEPT !.btree.root_page = [state |-> "WT_REF_MEM", addr |-> "WT_ADDR_INVALID", size |-> 0, page |-> page], !.log = Append(@, [ev |-> "install", slot |-> -1, res |-> OK, call |-> m.call])]

\* Lines 248-249: reconcile the root page; the result is the environment's.
ReconcileRoot(m, res) == [m EXCEPT !.log = Append(@, [ev |-> "root", slot |-> -1, res |-> res, call |-> m.call])]

\* __wt_bulk_end that does not test what the flush of the last page
\* returned (lines 209 and 212 without WT_RET).
wt_bulk_end_unchecked_flush(m, fault, err) ==
    LET r == IF m.cbulk.ins_cnt # 0 THEN wt_bulk_page(m, fault, err) ELSE Out(m, OK, "none")
        res == IF fault = "root_reconcile" THEN err ELSE OK
    IN  IF fault = "root_calloc" THEN Out(r.m, ENOMEM, "root_calloc")
        ELSE Out(ReconcileRoot(InstallRoot(r.m, RootPage(r.m.cbulk)), res), res, IF res = OK THEN "none" ELSE "root_reconcile")

\* __wt_bulk_end: flush the last page, build the root page, install it and
\* reconcile it.
wt_bulk_end(m, fault, err) ==
    LET r == IF m.cbulk.ins_cnt # 0 THEN wt_bulk_page(m, fault, err) ELSE Out(m, OK, "none")
        res == IF fault = "root_reconcile" THEN err ELSE OK
    IN  IF r.ret # OK THEN r
        ELSE IF fault = "root_calloc" THEN Out(r.m, ENOMEM, "root_calloc")
        ELSE Out(ReconcileRoot(InstallRoot(r.m, RootPage(r.m.cbulk)), res), res, IF res = OK THEN "none" ELSE "root_reconcile")

(* ------------------------------- begin -------------------------------- *)

\* InitCbulk without line 51: the run-length layout keeps the record
\* number of the zeroed cursor.
InitCbulkRleNoRecno(c, type) ==
    LET c1 == IF type = "BTREE_ROW" THEN [c EXCEPT !.insp = BASE, !.page_type = "WT_PAGE_ROW_LEAF"]
              ELSE [c EXCEPT !.recno = IF type = "BTREE_COL_RLE" THEN @ ELSE 1, !.updp = BASE, !.page_type = CASE type = "BTREE_COL_FIX" -> "WT_PAGE_COL_FIX" [] type = "BTREE_COL_RLE" -> "WT_PAGE_COL_RLE" [] OTHER -> "WT_PAGE_COL_VAR"]
    IN  [c1 EXCEPT !.ipp = Ipp]

\* Lines 45-66: the per-layout state of the cursor.
InitCbulk(c, type) ==
    LET c1 == IF type = "BTREE_ROW" THEN [c EXCEPT !.insp = BASE, !.page_type = "WT_PAGE_ROW_LEAF"]
              ELSE [c EXCEPT !.recno = 1, !.updp = BASE, !.page_type = CASE type = "BTREE_COL_FIX" -> "WT_PAGE_COL_FIX" [] type = "BTREE_COL_RLE" -> "WT_PAGE_COL_RLE" [] OTHER -> "WT_PAGE_COL_VAR"]
    IN  [c1 EXCEPT !.ipp = Ipp]

\* __wt_bulk_init with the eviction flag set before the tree is tested.
wt_bulk_init_flags_first(m) ==
    IF "WT_PAGE_INITIAL_EMPTY" \in m.btree.root_page.page.flags
    THEN Out([m EXCEPT !.btree.root_page.state = "WT_REF_DISK", !.btree.root_page.page = NoPage, !.btree.flags = @ \cup {"WT_BTREE_NO_EVICTION"}, !.cbulk = InitCbulk(@, m.btree.type)], OK, "none")
    ELSE Out([m EXCEPT !.btree.flags = @ \cup {"WT_BTREE_NO_EVICTION"}], WT_ERROR, "none")

\* __wt_bulk_init: start a bulk load.  __wt_free releases the placeholder
\* page and clears the pointer.
wt_bulk_init(m) ==
    IF "WT_PAGE_INITIAL_EMPTY" \in m.btree.root_page.page.flags
    THEN Out([m EXCEPT !.btree.root_page.state = "WT_REF_DISK", !.btree.root_page.page = NoPage, !.btree.flags = @ \cup {"WT_BTREE_NO_EVICTION"}, !.cbulk = InitCbulk(@, m.btree.type)], OK, "none")
    ELSE Out(m, WT_ERROR, "none")

(* ---------------------------- the callers ----------------------------- *)

\* The tree as btree open leaves it: empty (a placeholder root page) or
\* holding data.
EmptyRoot == [state |-> "WT_REF_MEM", addr |-> "WT_ADDR_INVALID", size |-> 0, page |-> EmptyPage]

DataRoot == [state |-> "WT_REF_MEM", addr |-> "WT_ADDR_DISK", size |-> 1, page |-> DataPage]

Init ==
    /\ \E type \in BtreeTypes, root \in {EmptyRoot, DataRoot} : btree = [type |-> type, root_page |-> root, flags |-> {}, items_inserted |-> 0]
    /\ cbulk = ZeroCbulk
    /\ recs = <<>>
    /\ pages = <<>>
    /\ log = <<>>
    /\ calls = <<>>
    /\ inserted = <<>>
    /\ phase = "new"

\* The calls so far in which the environment failed.
FaultsUsed == Cardinality({i \in 1..Len(calls) : calls[i].site # "none"})

MayFail(fault) == fault = "none" \/ FaultsUsed < MaxFaults

\* The error code is an input of a failing reconciliation only; the
\* allocation layer fails with ENOMEM.
ErrOf(fault, err) == fault \in {"reconcile", "root_reconcile"} \/ err = ENOMEM

\* The last call.
Last == calls[Len(calls)]

\* The value of the insert that failed last, when no insert succeeded
\* since: the application retries that insert.
Pending ==
    LET ins == {i \in 1..Len(calls) : calls[i].op = "insert"}
        last == CHOOSE i \in ins : \A j \in ins : j <= i
    IN  IF ins # {} /\ calls[last].ret # OK THEN calls[last].val ELSE NULL

\* The state a handler leaves becomes the state of the program.
Leave(r) ==
    /\ btree' = r.m.btree
    /\ cbulk' = r.m.cbulk
    /\ recs' = r.m.recs
    /\ pages' = r.m.pages
    /\ log' = r.m.log

Begin ==
    /\ phase = "new"
    /\ Len(calls) < MaxCalls
    /\ LET r == wt_bulk_init(M)
       IN  /\ Leave(r)
           /\ calls' = Append(calls, [op |-> "begin", key |-> NULL, val |-> NULL, ret |-> r.ret, site |-> r.site])
           /\ phase' = IF r.ret = OK THEN "loading" ELSE "new"
    /\ UNCHANGED inserted

\* The application inserts its next pair: keys are strictly increasing, the
\* key after n inserted pairs is n + 1.
Insert ==
    /\ phase = "loading"
    /\ Len(calls) < MaxCalls
    /\ \E val \in Values, fault \in {"none", "ins_alloc", "upd_alloc", "realloc", "buf_set", "calloc", "reconcile"}, err \in RecErrs :
        /\ MayFail(fault)
        /\ ErrOf(fault, err)
        /\ Pending \in {NULL, val}
        /\ LET key == Len(inserted) + 1
               r == wt_bulk_insert(M, key, val, fault, err)
           IN  /\ Leave(r)
               /\ calls' = Append(calls, [op |-> "insert", key |-> key, val |-> val, ret |-> r.ret, site |-> r.site])
               /\ inserted' = IF r.ret = OK THEN Append(inserted, [key |-> key, val |-> val]) ELSE inserted
    /\ UNCHANGED phase

\* The cursor is closed.  The load is over once the root page is installed.
End ==
    /\ phase = "loading"
    /\ Len(calls) < MaxCalls
    /\ \E fault \in {"none", "realloc", "buf_set", "calloc", "reconcile", "root_calloc", "root_reconcile"}, err \in RecErrs :
        /\ MayFail(fault)
        /\ ErrOf(fault, err)
        /\ LET r == wt_bulk_end(M, fault, err)
           IN  /\ Leave(r)
               /\ calls' = Append(calls, [op |-> "end", key |-> NULL, val |-> NULL, ret |-> r.ret, site |-> r.site])
               /\ phase' = IF r.site \in {"none", "root_reconcile"} THEN "ended" ELSE phase
    /\ UNCHANGED inserted

Next == Begin \/ Insert \/ End

Spec == Init /\ [][Next]_vars

(* ------------------------ reading the outcome ------------------------- *)

IsRow == btree.type = "BTREE_ROW"

\* The key/value pairs of a list of items.
Pairs(list) == [i \in 1..Len(list) |-> [key |-> recs[list[i]].key, val |-> recs[list[i]].val]]

\* The values of a list of items.
Vals(list) == [i \in 1..Len(list) |-> recs[list[i]].val]

\* The leaves handed to reconciliation whose parent_ref is slot k.
LeavesOfSlot(k) == {i \in 1..Len(pages) : pages[i].parent_ref.idx = k}

LeafOfSlot(k) == pages[CHOOSE i \in LeavesOfSlot(k) : TRUE]

\* The record lists of the leaves of slots 0..n-1, one after the other.
RECURSIVE SlotPairs(_)
SlotPairs(n) == IF n = 0 THEN <<>> ELSE SlotPairs(n - 1) \o Pairs(LeafOfSlot(n - 1).list)

\* The number of records in the leaves of slots 0..n-1.
RECURSIVE SlotCount(_)
SlotCount(n) == IF n = 0 THEN 0 ELSE SlotCount(n - 1) + Len(LeafOfSlot(n - 1).list)

InsertCalls == {i \in 1..Len(calls) : calls[i].op = "insert"}

AllInsertsOK == \A i \in InsertCalls : calls[i].ret = OK

AllCallsOK == \A i \in 1..Len(calls) : calls[i].ret = OK

EndedOK == phase = "ended" /\ Last.op = "end" /\ Last.ret = OK

(* ----------------------------- properties ----------------------------- *)

\* C1: row-store, every insert returned success and end returned success:
\* each slot 0..ref_next-1 has one leaf, and the record lists of these
\* leaves, concatenated in slot order, are the inserted key/value pairs,
\* each once, in insertion order.
C1_RowTraversal ==
    (IsRow /\ AllInsertsOK /\ EndedOK) =>
        /\ \A k \in 0..(cbulk.ref_next - 1) : Cardinality(LeavesOfSlot(k)) = 1
        /\ Len(pages) = cbulk.ref_next
        /\ SlotPairs(cbulk.ref_next) = inserted

\* A row load of more than one page that ended with success.
C1_Witness == IsRow /\ AllInsertsOK /\ EndedOK /\ Len(inserted) > cbulk.ipp /\ cbulk.ref_next >= 2

\* C2: column-store, every insert returned success and end returned
\* success: the i-th value of the leaf that starts at record number r is the
\* (r+i)-th inserted value, and the leaves, in slot order, cover the record
\* numbers 1..total without gap or overlap.
C2_ColRecno ==
    (~IsRow /\ AllInsertsOK /\ EndedOK) =>
        /\ \A k \in 0..(cbulk.ref_next - 1) : Cardinality(LeavesOfSlot(k)) = 1
        /\ Len(pages) = cbulk.ref_next
        /\ \A k \in 0..(cbulk.ref_next - 1) :
            LET leaf == LeafOfSlot(k)
            IN  /\ leaf.recno = 1 + SlotCount(k)
                /\ Len(leaf.list) >= 1
                /\ leaf.recno + Len(leaf.list) - 1 <= Len(inserted)
                /\ \A i \in 0..(Len(leaf.list) - 1) : recs[leaf.list[i + 1]].val = inserted[leaf.recno + i].val
        /\ SlotCount(cbulk.ref_next) = Len(inserted)

\* A column load of more than one page that ended with success.
C2_Witness == ~IsRow /\ AllInsertsOK /\ EndedOK /\ Len(inserted) > cbulk.ipp /\ cbulk.ref_next >= 2

\* C3: a load in which no call failed, ended: the number of leaves flushed
\* is floor((total - 1) / capacity) + 1, every leaf but the last holds
\* exactly capacity records (the last between 1 and capacity), and ref_next
\* and the root's entry count are the number of flushes.
C3_FlushCount ==
    (AllCallsOK /\ EndedOK) =>
        /\ Len(pages) = ((Len(inserted) - 1) \div cbulk.ipp) + 1
        /\ \A i \in 1..Len(pages) : IF i < Len(pages) THEN Len(pages[i].list) = cbulk.ipp ELSE Len(pages[i].list) \in 1..cbulk.ipp
        /\ cbulk.ref_next = Len(pages)
        /\ btree.root_page.page.entries = Len(pages)

\* A load without failure whose last page is partly filled, after full ones.
C3_Witness == AllCallsOK /\ EndedOK /\ Len(pages) >= 2 /\ Len(pages[Len(pages)].list) < cbulk.ipp

\* C4: begin on a tree whose root page is not the initial empty page
\* returns WT_ERROR and changes nothing: the btree handle (root reference,
\* root page, flags), the cursor's bulk state, the items and the pages are
\* as before, and begin may be called again.
C4_BeginRefused == [][(Last'.op = "begin" /\ "WT_PAGE_INITIAL_EMPTY" \notin btree.root_page.page.flags) => (Last'.ret = WT_ERROR /\ btree' = btree /\ cbulk' = cbulk /\ recs' = recs /\ pages' = pages /\ phase' = phase)]_vars

\* begin was refused, called again, and refused again.
C4_Witness == Len(calls) >= 2 /\ Last.op = "begin" /\ Last.ret = WT_ERROR /\ btree.root_page = DataRoot /\ btree.flags = {} /\ cbulk = ZeroCbulk

\* The calls of the allocation layer.
AllocSites == {"ins_alloc", "upd_alloc", "realloc", "buf_set", "calloc", "root_calloc"}

\* The record list the cursor is appending to: empty while the append
\* cursor is at the list head, else the list from the base pointer.
ActiveList(c, heap) ==
    IF c.page_type = "WT_PAGE_ROW_LEAF"
    THEN IF c.insp = BASE THEN <<>> ELSE Walk(heap, c.ins_base)
    ELSE IF c.updp = BASE THEN <<>> ELSE Walk(heap, c.upd_base)

Range(f) == {f[i] : i \in DOMAIN f}

\* C5: an allocation failure during the K-th insert into the current page,
\* K <= capacity, returns ENOMEM and leaves the record list and the in-page
\* count at K-1; what the insert allocated is released and is not linked.
C5_AllocFailureLeavesPage == [][(Last'.op = "insert" /\ Last'.site \in AllocSites /\ cbulk.ins_cnt < cbulk.ipp /\ Len(ActiveList(cbulk, recs)) = cbulk.ins_cnt) => (Last'.ret = ENOMEM /\ cbulk'.ins_cnt = cbulk.ins_cnt /\ Len(ActiveList(cbulk', recs')) = cbulk.ins_cnt /\ \A p \in (Len(recs) + 1)..Len(recs') : recs'[p].released /\ p \notin Range(ActiveList(cbulk', recs')))]_vars

\* The run without failure: begin on the empty tree, the pairs inserted one
\* after the other, end.
RECURSIVE ReplayInserts(_, _, _)
ReplayInserts(m, seq, i) == IF i > Len(seq) THEN m ELSE ReplayInserts(wt_bulk_insert(m, seq[i].key, seq[i].val, "none", OK).m, seq, i + 1)

NoFailureRun(type, seq) ==
    LET m0 == [btree |-> [type |-> type, root_page |-> EmptyRoot, flags |-> {}, items_inserted |-> 0], cbulk |-> ZeroCbulk, recs |-> <<>>, pages |-> <<>>, log |-> <<>>, call |-> 0]
    IN  wt_bulk_end(ReplayInserts(wt_bulk_init(m0).m, seq, 1), "none", OK).m

\* What a load leaves: the flushed leaves with their records, the child
\* references in use and the root.
Result(m) ==
    [leaves |-> [i \in 1..Len(m.pages) |-> [type |-> m.pages[i].type, recno |-> m.pages[i].recno, slot |-> m.pages[i].parent_ref.idx, recs |-> [j \in 1..Len(m.pages[i].list) |-> [key |-> m.recs[m.pages[i].list[j]].key, val |-> m.recs[m.pages[i].list[j]].val]]]],
     refs |-> SubSeq(m.cbulk.ref, 1, m.cbulk.ref_next),
     root |-> [m.btree.root_page EXCEPT !.page.t = NULL]]

OnlyAllocFailuresInInsert == \A i \in 1..Len(calls) : calls[i].ret # OK => (calls[i].op = "insert" /\ calls[i].site \in AllocSites)

EveryFailedInsertRetried == \A i \in InsertCalls : calls[i].ret # OK => \E j \in InsertCalls : j > i

\* C6: when the only failures of a load are inserts that failed on an
\* allocation, and each was retried, the completed load leaves the leaves,
\* child references and root of the run without failure.
C6_RetryEquivalent == (EndedOK /\ OnlyAllocFailuresInInsert /\ EveryFailedInsertRetried) => Result(M) = Result(NoFailureRun(btree.type, inserted))

ReconcileEvents == {i \in 1..Len(log) : log[i].ev \in {"leaf", "root"}}

\* C7: a failure of reconciliation is what the call in which it happened
\* returns, it ends that call (nothing is reconciled after it in the same
\* call), no call in which the environment failed returns success, and no
\* page is handed to reconciliation twice.
C7_ReconcileErrorReturned ==
    /\ \A i \in ReconcileEvents : log[i].res # OK =>
        /\ calls[log[i].call].ret = log[i].res
        /\ \A j \in 1..Len(log) : j > i => log[j].call # log[i].call
    /\ \A i \in 1..Len(calls) : calls[i].site # "none" => calls[i].ret # OK
    /\ \A i, j \in ReconcileEvents : (i # j /\ log[i].ev = log[j].ev) => log[i].slot # log[j].slot
    /\ Len(pages) = Cardinality({i \in ReconcileEvents : log[i].ev = "leaf"})

\* Reconciliation failed in the rotation of an insert, and later in end.
C7_Witness ==
    /\ \E i \in ReconcileEvents : log[i].ev = "leaf" /\ log[i].res = "WT_ERROR" /\ calls[log[i].call].op = "insert"
    /\ \E i \in ReconcileEvents : log[i].res = "ENOMEM" /\ calls[log[i].call].op = "end"

InstallEvents == {i \in 1..Len(log) : log[i].ev = "install"}

RootEvents == {i \in 1..Len(log) : log[i].ev = "root"}

\* C8: end builds one root page, with ref_next entries over the cursor's
\* reference array, of type column-internal with recno 1 or row-internal;
\* the page is installed in the tree's root reference, in memory, and then
\* reconciled; end returns success only if that reconciliation returned
\* success, and after a failed one the root reference still holds the page.
C8_RootPage ==
    /\ Cardinality(InstallEvents) <= 1
    /\ \A i \in RootEvents : i - 1 \in InstallEvents /\ log[i - 1].call = log[i].call /\ calls[log[i].call].op = "end"
    /\ \A i \in InstallEvents : i + 1 \in RootEvents
    /\ \A i \in 1..Len(calls) : (calls[i].op = "end" /\ calls[i].ret = OK) => \E j \in RootEvents : log[j].call = i /\ log[j].res = OK
    /\ \A i \in 1..Len(calls) : (calls[i].op = "end" /\ calls[i].site \in {"none", "root_reconcile"}) => \E j \in RootEvents : log[j].call = i /\ log[j].res = calls[i].ret
    /\ (phase = "ended") = (RootEvents # {})
    /\ RootEvents # {} =>
        /\ btree.root_page.state = "WT_REF_MEM"
        /\ btree.root_page.page.entries = cbulk.ref_next
        /\ btree.root_page.page.t = cbulk.ref_gen
        /\ btree.root_page.page.parent = NULL
        /\ btree.root_page.page.type = (IF IsRow THEN "WT_PAGE_ROW_INT" ELSE "WT_PAGE_COL_INT")
        /\ (~IsRow => btree.root_page.page.recno = 1)

\* The root page of a load in which fewer slots are used than allocated was
\* installed, and its reconciliation failed.
C8_Witness == RootEvents # {} /\ Last.op = "end" /\ Last.ret # OK /\ cbulk.ref_next >= 1 /\ cbulk.ref_next < cbulk.ref_entries /\ btree.root_page.page.entries = cbulk.ref_next

\* C9: end after a successful begin and no insert hands no leaf to
\* reconciliation; when the root page is allocated it has zero children, is
\* installed, and end returns what its reconciliation returned.
C9_EndWithoutInserts ==
    (InsertCalls = {} /\ Len(calls) > 0 /\ Last.op = "end") =>
        /\ pages = <<>>
        /\ \A i \in 1..Len(log) : log[i].ev # "leaf"
        /\ cbulk.ref_next = 0
        /\ Last.site # "root_calloc" =>
            /\ btree.root_page.state = "WT_REF_MEM"
            /\ btree.root_page.page.type \in {"WT_PAGE_ROW_INT", "WT_PAGE_COL_INT"}
            /\ btree.root_page.page.entries = 0
            /\ \E i \in RootEvents : log[i].call = Len(calls) /\ log[i].res = Last.ret

\* begin, then end at once: a root without children, reconciled.
C9_Witness == InsertCalls = {} /\ Len(calls) = 2 /\ Last.op = "end" /\ Last.ret = OK /\ btree.root_page.page.entries = 0 /\ phase = "ended"

\* C10: column-store: the leaf of slot k and its child reference hold the
\* starting record number 1 + the records of the earlier leaves, and
\* between calls recno + ins_cnt = 1 + the number of successful inserts.
C10_ColRecnoAccounting ==
    (~IsRow /\ phase # "new") =>
        /\ \A k \in 0..(cbulk.ref_next - 1) : Cardinality(LeavesOfSlot(k)) = 1
        /\ \A k \in 0..(cbulk.ref_next - 1) : LeafOfSlot(k).recno = 1 + SlotCount(k) /\ cbulk.ref[k + 1].recno = LeafOfSlot(k).recno
        /\ cbulk.recno + cbulk.ins_cnt = 1 + btree.items_inserted

\* C11: row-store: the child reference of every flushed leaf holds the key
\* of the first record of that leaf's own list, and that record is in no
\* leaf flushed before; in a load without failure the key of the k-th leaf
\* (k = 0, 1, ...) is the key of insert number k * capacity + 1.
C11_RowChildKey ==
    IsRow =>
        /\ \A i \in 1..Len(pages) :
            /\ Len(pages[i].list) >= 1
            /\ pages[i].list[1] = pages[i].head
            /\ cbulk.ref[pages[i].parent_ref.idx + 1].key = recs[pages[i].list[1]].key
            /\ \A j \in 1..(i - 1) : pages[i].list[1] \notin Range(pages[j].list)
        /\ AllCallsOK => \A i \in 1..Len(pages) :
            /\ pages[i].parent_ref.idx = i - 1
            /\ cbulk.ref[i].key = inserted[(i - 1) * cbulk.ipp + 1].key
            /\ cbulk.ref[i].key = (i - 1) * cbulk.ipp + 1

\* A row load without failure: a full second leaf flushed by an insert and
\* a partly filled third leaf flushed by end.
C11_Witness == IsRow /\ AllCallsOK /\ EndedOK /\ Len(pages) = 3 /\ cbulk.ref[2].key = cbulk.ipp + 1 /\ cbulk.ref[3].key = 2 * cbulk.ipp + 1 /\ Len(pages[3].list) < cbulk.ipp

\* The leaves whose reconciliation returned success.
ReconciledOK == {i \in 1..Len(pages) : pages[i].res = OK}

\* C12: ref_next, and with it the entry count of the root page end builds,
\* is the number of leaves whose reconciliation succeeded, also after a
\* rotation whose reconciliation failed.
C12_RefsAreReconciled ==
    phase # "new" =>
        /\ cbulk.ref_next = Cardinality(ReconciledOK)
        /\ RootEvents # {} => btree.root_page.page.entries = Cardinality(ReconciledOK)

\* The root reference as __wt_bulk_init leaves it.
BegunRoot == [EmptyRoot EXCEPT !.state = "WT_REF_DISK", !.page = NoPage]

\* The failures of __wt_bulk_end that precede line 242.
BeforeInstall == {"realloc", "buf_set", "calloc", "reconcile", "root_calloc"}

PageOwned == UNION {Range(pages[i].list) : i \in 1..Len(pages)}

\* C14: an item insert releases is linked into no list: it is not in the
\* active list and not in the list of a skeleton page; every linked item
\* has one owner, the active list or one page.
C14_ReleasedNeverLinked ==
    /\ \A p \in 1..Len(recs) : recs[p].released => (p \notin Range(ActiveList(cbulk, recs)) /\ p \notin PageOwned)
    /\ Range(ActiveList(cbulk, recs)) \cap PageOwned = {}
    /\ \A i, j \in 1..Len(pages) : i # j => Range(pages[i].list) \cap Range(pages[j].list) = {}

\* C15: between calls 0 <= ins_cnt < capacity and ins_cnt is the length of
\* the active list, after failed calls too; no flushed page holds more than
\* capacity records.
C15_InPageCount ==
    phase # "new" =>
        /\ cbulk.ins_cnt >= 0
        /\ cbulk.ins_cnt < cbulk.ipp
        /\ cbulk.ins_cnt = Len(ActiveList(cbulk, recs))
        /\ \A i \in 1..Len(pages) : Len(pages[i].list) <= cbulk.ipp

\* C16: ref_next <= ref_entries and ref_entries is a multiple of the chunk;
\* the array grows by one chunk at a time and only when every allocated
\* slot is used; the back-reference of a leaf handed to reconciliation is
\* the slot captured for it (index ref_next at capture), inside the
\* allocated array, in the allocation that is still the cursor's array when
\* the reconciliation returns.
C16_RefArray ==
    /\ [](cbulk.ref_next <= cbulk.ref_entries /\ cbulk.ref_entries % RefChunk = 0 /\ Len(cbulk.ref) = cbulk.ref_entries /\ cbulk.ref_allocated = cbulk.ref_entries)
    /\ [][/\ cbulk'.ref_entries # cbulk.ref_entries => (cbulk'.ref_entries = cbulk.ref_entries + RefChunk /\ cbulk.ref_next = cbulk.ref_entries)
          /\ cbulk'.ref_gen # cbulk.ref_gen => cbulk'.ref_entries # cbulk.ref_entries
          /\ Len(pages') # Len(pages) =>
                /\ Len(pages') = Len(pages) + 1
                /\ pages'[Len(pages')].parent_ref.idx = cbulk.ref_next
                /\ pages'[Len(pages')].parent_ref.idx < cbulk'.ref_entries
                /\ pages'[Len(pages')].parent_ref.arr = cbulk'.ref_gen
                /\ IF IsRow THEN cbulk'.ref[cbulk.ref_next + 1].key = recs'[pages'[Len(pages')].head].key ELSE cbulk'.ref[cbulk.ref_next + 1].recno = pages'[Len(pages')].recno]_vars

\* The array grew twice: the third leaf points into the second allocation,
\* the first leaf pointed into the first.
C16_Witness == Len(pages) >= 3 /\ cbulk.ref_entries = 2 * RefChunk /\ cbulk.ref_next = 3 /\ pages[1].parent_ref.arr = 1 /\ pages[3].parent_ref.arr = 2 /\ pages[3].parent_ref.idx = 2

\* The events of leaves handed to reconciliation, in log order.
LeafEvents == {i \in 1..Len(log) : log[i].ev = "leaf"}

\* C17: leaves are handed to reconciliation one at a time, the k-th to slot
\* k-1; a call hands over at most one leaf and leaves no record in a new
\* active list when it returns from a hand-over; the records of a later
\* leaf were all allocated after those of an earlier leaf; the root page's
\* reconciliation is the last event of the load, after every leaf's.
C17_ReconcileOrder ==
    /\ [](/\ \A i \in 1..Len(pages) : pages[i].parent_ref.idx = i - 1
          /\ \A i, j \in LeafEvents : i < j => (log[i].slot < log[j].slot /\ log[i].call < log[j].call)
          /\ \A i, j \in 1..Len(pages) : i < j => \A p \in Range(pages[i].list), q \in Range(pages[j].list) : p < q
          /\ Cardinality(RootEvents) <= 1
          /\ \A r \in RootEvents : r = Len(log) /\ phase = "ended" /\ Cardinality(LeafEvents) = Len(pages) /\ \A i \in LeafEvents : i < r)
    /\ [][Len(pages') # Len(pages) =>
            /\ Len(pages') = Len(pages) + 1
            /\ SubSeq(pages', 1, Len(pages)) = pages
            /\ ActiveList(cbulk', recs') = <<>>
            /\ \A p \in Range(pages'[Len(pages')].list) : p \notin PageOwned]_vars

\* A finished load of three leaves, one of them flushed by end, and the
\* root reconciled after them.
C17_Witness == phase = "ended" /\ Len(pages) = 3 /\ RootEvents = {Len(log)} /\ pages[3].parent_ref.idx = 2 /\ log[Len(log) - 2].ev = "leaf" /\ log[Len(log) - 2].call = Len(calls)

\* The leaf page type of a tree layout (the switch of lines 45-65).
LeafTypeOf(type) == CASE type = "BTREE_ROW" -> "WT_PAGE_ROW_LEAF" [] type = "BTREE_COL_FIX" -> "WT_PAGE_COL_FIX" [] type = "BTREE_COL_RLE" -> "WT_PAGE_COL_RLE" [] OTHER -> "WT_PAGE_COL_VAR"

\* The last call is a begin that returned 0.
BeginSucceeded == Len(calls) >= 1 /\ Last.op = "begin" /\ Last.ret = OK

\* C18: when begin returns 0 the root reference is WT_REF_DISK and holds no
\* in-memory page, WT_BTREE_NO_EVICTION is set, the cursor's page type is
\* that of the tree layout, the active list is empty with the append
\* cursor at its head, ins_cnt and ref_next are 0, a column cursor starts at
\* record number 1 and ipp > 0; insert and end leave the tree's flags as
\* they are, so the flag stays set for the rest of the load.
C18_BeginState ==
    /\ [](BeginSucceeded =>
            /\ btree.root_page.state = "WT_REF_DISK"
            /\ btree.root_page.page = NoPage
            /\ "WT_BTREE_NO_EVICTION" \in btree.flags
            /\ cbulk.page_type = LeafTypeOf(btree.type)
            /\ IF IsRow THEN cbulk.insp = BASE /\ cbulk.ins_base = NULL ELSE cbulk.updp = BASE /\ cbulk.upd_base = NULL
            /\ ActiveList(cbulk, recs) = <<>>
            /\ cbulk.ins_cnt = 0
            /\ cbulk.ref_next = 0
            /\ ~IsRow => cbulk.recno = 1
            /\ cbulk.ipp > 0
            /\ recs = <<>> /\ pages = <<>> /\ log = <<>>)
    /\ [](phase # "new" => "WT_BTREE_NO_EVICTION" \in btree.flags)
    /\ [][Last'.op \in {"insert", "end"} => btree'.flags = btree.flags]_vars

\* Begin succeeded on an empty run-length column tree.
C18_Witness == BeginSucceeded /\ btree.type = "BTREE_COL_RLE" /\ cbulk.recno = 1 /\ cbulk.updp = BASE /\ btree.root_page.page = NoPage /\ btree.flags = {"WT_BTREE_NO_EVICTION"}

=============================================================================
